---- MODULE Spec2Model ----
(***************************************************************************)
(* State-machine model of the Nintendo DS ROM plugin:                      *)
(*   - NDSView._mii_uncompress_backward, _decompress_arm9, _init_arm9 and  *)
(*     init               (src/gameroms/binaryview/ndsrom.py)              *)
(*   - crc16 and NDSView.is_valid_for_data      (src/ndsrom.py)            *)
(*   - parse_fat, parse_fnt, parse_fnt_sub_table, print_file_system        *)
(*                                              (src/ndstest.py)           *)
(* Byte strings are sequences of naturals in 0..255; a Python index k is   *)
(* the element k+1 of the sequence.                                        *)
(***************************************************************************)
EXTENDS Integers, Sequences, FiniteSets, TLC

VARIABLES
    \* ---- _mii_uncompress_backward (one activation) ----
    data,       \* the input blob (bytes, never assigned to)
    result,     \* the bytearray being built
    leng,       \* len(result) as computed on line 131
    offs,       \* read cursor
    dst_offs,   \* write cursor
    header,     \* current control byte
    i,          \* index of the for loop over the 8 bits
    pc,         \* position in the function
    ret,        \* the value returned (bytes) once pc = "return"
    exc,        \* the exception that left the function once pc = "raise"
    idx,        \* raw indices used on `result` by the last step that did not raise
    ntok,       \* number of tokens processed so far
    \* ---- init / _init_arm9 / _decompress_arm9 ----
    nds_rom,    \* self.nds_rom: the ROM bytes and the header fields read from them
    arm9_data,  \* the local arm9_data of _init_arm9
    pc9,        \* position in init/_init_arm9/_decompress_arm9
    d9,         \* outcome of _decompress_arm9
    segments,   \* add_auto_segment calls so far
    written,    \* self.write calls so far
    init_ret,   \* value returned by init
    \* ---- parse_fat ----
    fat,        \* FAT region, input
    fat_i,      \* loop variable of parse_fat
    fat_entries,\* list being built
    fat_pc,
    \* ---- crc16 / is_valid_for_data ----
    crc_in,     \* bytes handed to crc16
    crc,        \* accumulator
    crc_k,      \* number of bytes consumed
    crc_bit,    \* inner loop counter
    crc_pc,
    raw,        \* the file handed to is_valid_for_data
    hdr,        \* the bytes data.read(0, 0x160) returned
    probe_pc,
    probe_ret,
    \* ---- parse_fnt / parse_fnt_sub_table / print_file_system ----
    rom_data,   \* the FNT image (fnt_offset = 0)
    directory_entries,
    stack,      \* activations of print_directory
    out,        \* what has been printed
    fnt_pc

miiVars   == <<data, result, leng, offs, dst_offs, header, i, pc, ret, exc, idx, ntok>>
arm9Vars  == <<nds_rom, arm9_data, pc9, d9, segments, written, init_ret>>
fatVars   == <<fat, fat_i, fat_entries, fat_pc>>
crcVars   == <<crc_in, crc, crc_k, crc_bit, crc_pc>>
probeVars == <<raw, hdr, probe_pc, probe_ret>>
fntVars   == <<rom_data, directory_entries, stack, out, fnt_pc>>
vars == <<miiVars, arm9Vars, fatVars, crcVars, probeVars, fntVars>>

(***************************************************************************)
(* Bounds of the model.                                                    *)
(***************************************************************************)
MaxBody  == 5     \* bytes of a blob in front of its 8-byte footer
MaxExtra == 5     \* largest extra_size (bytes 1..3 of the word are 0)
MaxThr   == 13    \* largest end_threshold (bytes 1..2 of the field are 0)
MaxFat   == 3     \* records in a FAT region
MaxCrcLen == 3    \* bytes handed to crc16
MaxEntries == 2   \* entries of one FNT sub-table
MaxDepth == 4     \* nested print_directory calls the interpreter allows

(***************************************************************************)
(* Python primitives.                                                      *)
(***************************************************************************)
\* b[k] for a raw Python index k on a sequence of length n: the 0-based
\* position it denotes, or -1 when Python raises IndexError.
PyIndex(k, n) ==
    IF 0 <= k /\ k < n THEN k
    ELSE IF k < 0 /\ k >= -n THEN k + n
    ELSE -1

At(b, k) == b[k + 1]

\* struct.unpack_from("<I", b, off): can the 4 bytes be read
UnpackOk(b, off) ==
    IF off < 0 THEN off + 4 <= 0 /\ off + Len(b) >= 0
    ELSE Len(b) - off >= 4

\* position the read of struct.unpack_from starts at
UnpackPos(b, off) == IF off < 0 THEN off + Len(b) ELSE off

U32At(b, off) ==
    LET p == UnpackPos(b, off)
    IN  At(b, p) + 256 * At(b, p + 1) + 65536 * At(b, p + 2) + 16777216 * At(b, p + 3)

\* b[lo:hi] for 0 <= lo
Slice(b, lo, hi) ==
    LET h == IF hi > Len(b) THEN Len(b) ELSE hi
    IN  IF lo >= h THEN <<>> ELSE [k \in 1..(h - lo) |-> b[lo + k]]

Zeros(n) == [k \in 1..n |-> 0]

(***************************************************************************)
(* NDSView._mii_uncompress_backward                                        *)
(***************************************************************************)
MiiRaise(e) ==
    /\ pc' = "raise"
    /\ exc' = e
    /\ UNCHANGED <<data, result, leng, offs, dst_offs, header, i, ret, idx, ntok>>

\* line 131: leng = unpack_from("<I", data, len(data) - 4)[0] + len(data)
MiiUnpackExtra ==
    /\ pc = "l131"
    /\ IF UnpackOk(data, Len(data) - 4)
       THEN /\ leng' = U32At(data, Len(data) - 4) + Len(data)
            /\ pc' = "l132"
            /\ UNCHANGED <<data, result, offs, dst_offs, header, i, ret, exc, idx, ntok>>
       ELSE MiiRaise("struct.error")

\* lines 132-133 with the input appended to the zeroed buffer in place of
\* the slice assignment
MiiAllocExtend ==
    /\ pc = "l132"
    /\ result' = Zeros(leng) \o data
    /\ pc' = "l135"
    /\ UNCHANGED <<data, leng, offs, dst_offs, header, i, ret, exc, idx, ntok>>

\* lines 132-133: result = bytearray(leng); result[:len(data)] = data
MiiAlloc ==
    /\ pc = "l132"
    /\ result' = data \o Zeros(leng - Len(data))
    /\ pc' = "l135"
    /\ UNCHANGED <<data, leng, offs, dst_offs, header, i, ret, exc, idx, ntok>>

\* lines 135-136: offs = len(data) - (packed >> 24); dst_offs = leng
MiiUnpackPacked ==
    /\ pc = "l135"
    /\ IF UnpackOk(data, Len(data) - 8)
       THEN /\ offs' = Len(data) - (U32At(data, Len(data) - 8) \div 16777216)
            /\ dst_offs' = leng
            /\ pc' = "header"
            /\ UNCHANGED <<data, result, leng, header, i, ret, exc, idx, ntok>>
       ELSE MiiRaise("struct.error")

\* lines 139-140: header = result[offs - 1]; offs -= 1  (then for i in range(8))
MiiReadHeader ==
    /\ pc = "header"
    /\ LET k == PyIndex(offs - 1, Len(result))
       IN  IF k = -1
           THEN MiiRaise("IndexError")
           ELSE /\ header' = At(result, k)
                /\ offs' = offs - 1
                /\ i' = 0
                /\ idx' = <<offs - 1>>
                /\ pc' = "token"
                /\ UNCHANGED <<data, result, leng, dst_offs, ret, exc, ntok>>

\* lines 143-146 without the offs -= 1 of line 144
MiiLiteralNoAdvance ==
    /\ pc = "token"
    /\ header < 128
    /\ LET s == PyIndex(offs, Len(result))
           d == PyIndex(dst_offs - 1, Len(result))
       IN  IF s = -1 \/ d = -1
           THEN MiiRaise("IndexError")
           ELSE /\ dst_offs' = dst_offs - 1
                /\ result' = [result EXCEPT ![d + 1] = At(result, s)]
                /\ idx' = <<offs, dst_offs - 1>>
                /\ ntok' = ntok + 1
                /\ pc' = "check"
                /\ UNCHANGED <<data, leng, offs, header, i, ret, exc>>

\* lines 143-146: the literal token
MiiLiteral ==
    /\ pc = "token"
    /\ header < 128                       \* (header & 0x80) == 0
    /\ LET s == PyIndex(offs - 1, Len(result))
           d == PyIndex(dst_offs - 1, Len(result))
       IN  IF s = -1 \/ d = -1
           THEN MiiRaise("IndexError")
           ELSE /\ offs' = offs - 1
                /\ dst_offs' = dst_offs - 1
                /\ result' = [result EXCEPT ![d + 1] = At(result, s)]
                /\ idx' = <<offs - 1, dst_offs - 1>>
                /\ ntok' = ntok + 1
                /\ pc' = "check"
                /\ UNCHANGED <<data, leng, header, i, ret, exc>>

\* lines 155-157 with every byte of the run taken from the buffer as it was
\* before the run (a block copy in place of the byte-by-byte loop)
CopyRunFromSnapshot(res, dst, disp, n, used) ==
    LET P(k) == PyIndex(k, Len(res))
        Last(p) == CHOOSE k \in 1..n :
                       /\ P(dst - k) + 1 = p
                       /\ \A m \in (k + 1)..n : P(dst - m) + 1 # p
    IN  IF \E k \in 1..n : P(dst - k) = -1 \/ P(dst - k + disp) = -1
        THEN [ok |-> FALSE, res |-> res, dst |-> dst, used |-> used]
        ELSE [ok |-> TRUE,
              res |-> [p \in 1..Len(res) |->
                          IF \E k \in 1..n : P(dst - k) + 1 = p
                          THEN res[P(dst - Last(p) + disp) + 1]
                          ELSE res[p]],
              dst |-> dst - n,
              used |-> used \o [j \in 1..(2 * n) |->
                                   IF j % 2 = 1 THEN dst - ((j + 1) \div 2) + disp
                                   ELSE dst - (j \div 2)]]

\* lines 155-157: for _ in range(n): dst_offs -= 1;
\*                                  result[dst_offs] = result[dst_offs + disp]
RECURSIVE CopyRun(_, _, _, _, _)
CopyRun(res, dst, disp, n, used) ==
    IF n = 0 THEN [ok |-> TRUE, res |-> res, dst |-> dst, used |-> used]
    ELSE LET s == PyIndex(dst - 1 + disp, Len(res))
             d == PyIndex(dst - 1, Len(res))
         IN  IF s = -1 \/ d = -1
             THEN [ok |-> FALSE, res |-> res, dst |-> dst - 1, used |-> used]
             ELSE CopyRun([res EXCEPT ![d + 1] = At(res, s)], dst - 1, disp, n - 1,
                          used \o <<dst - 1 + disp, dst - 1>>)

\* disp = (((a & 0xF) << 8) | b) + 2
Disp(a, b) == ((a % 16) * 256 + b) + 2

\* length = (a >> 4) + 2
RunLength(a) == (a \div 16) + 2

\* lines 148-157: the back-reference token
MiiBackRef ==
    /\ pc = "token"
    /\ header >= 128                      \* (header & 0x80) != 0
    /\ LET ka == PyIndex(offs - 1, Len(result))
           kb == PyIndex(offs - 2, Len(result))
       IN  IF ka = -1 \/ kb = -1
           THEN MiiRaise("IndexError")
           ELSE LET a == At(result, ka)
                    b == At(result, kb)
                    r == CopyRun(result, dst_offs, Disp(a, b), RunLength(a) + 1,
                                 <<offs - 1, offs - 2>>)
                IN  IF ~r.ok
                    THEN MiiRaise("IndexError")
                    ELSE /\ offs' = offs - 2
                         /\ dst_offs' = r.dst
                         /\ result' = r.res
                         /\ idx' = r.used
                         /\ ntok' = ntok + 1
                         /\ pc' = "check"
                         /\ UNCHANGED <<data, leng, header, i, ret, exc>>

\* len(data) - (packed & 0xFFFFFF), lines 160-161
StopOffset(b) == Len(b) - (U32At(b, Len(b) - 8) % 16777216)

\* the test of line 159 written with < in place of <=
MiiCheckStrict ==
    /\ pc = "check"
    /\ IF offs < StopOffset(data)
       THEN /\ ret' = result
            /\ pc' = "return"
            /\ UNCHANGED <<data, result, leng, offs, dst_offs, header, i, exc, idx, ntok>>
       ELSE /\ header' = (header * 2) % 256
            /\ i' = i + 1
            /\ pc' = IF i + 1 = 8 THEN "header" ELSE "token"
            /\ UNCHANGED <<data, result, leng, offs, dst_offs, ret, exc, idx, ntok>>

\* the test of line 159 made only once the eight bits of a control byte
\* are used up
MiiCheckAtByteEnd ==
    /\ pc = "check"
    /\ IF i + 1 = 8 /\ offs <= StopOffset(data)
       THEN /\ ret' = result
            /\ pc' = "return"
            /\ UNCHANGED <<data, result, leng, offs, dst_offs, header, i, exc, idx, ntok>>
       ELSE /\ header' = (header * 2) % 256
            /\ i' = i + 1
            /\ pc' = IF i + 1 = 8 THEN "header" ELSE "token"
            /\ UNCHANGED <<data, result, leng, offs, dst_offs, ret, exc, idx, ntok>>

\* lines 159-165: the test after each token, then header <<= 1
MiiCheck ==
    /\ pc = "check"
    /\ IF offs <= StopOffset(data)
       THEN /\ ret' = result              \* return bytes(result)
            /\ pc' = "return"
            /\ UNCHANGED <<data, result, leng, offs, dst_offs, header, i, exc, idx, ntok>>
       ELSE /\ header' = (header * 2) % 256
            /\ i' = i + 1
            /\ pc' = IF i + 1 = 8 THEN "header" ELSE "token"
            /\ UNCHANGED <<data, result, leng, offs, dst_offs, ret, exc, idx, ntok>>

\* the locals of an activation that has not started
MiiFresh(blob, start) ==
    /\ data = blob
    /\ result = <<>>
    /\ leng = 0
    /\ offs = 0
    /\ dst_offs = 0
    /\ header = 0
    /\ i = 0
    /\ pc = start
    /\ ret = <<>>
    /\ exc = "none"
    /\ idx = <<>>
    /\ ntok = 0

(***************************************************************************)
(* Components that take no part in a specification rest in these states.   *)
(***************************************************************************)
MiiIdle == MiiFresh(<<>>, "idle")

Arm9Idle ==
    /\ nds_rom = <<>>
    /\ arm9_data = <<>>
    /\ pc9 = "idle"
    /\ d9 = "none"
    /\ segments = <<>>
    /\ written = <<>>
    /\ init_ret = "none"

FatIdle ==
    /\ fat = <<>>
    /\ fat_i = 0
    /\ fat_entries = <<>>
    /\ fat_pc = "idle"

CrcIdle ==
    /\ crc_in = <<>>
    /\ crc = 0
    /\ crc_k = 0
    /\ crc_bit = 0
    /\ crc_pc = "idle"

ProbeIdle ==
    /\ raw = <<>>
    /\ hdr = <<>>
    /\ probe_pc = "idle"
    /\ probe_ret = "none"

FntIdle ==
    /\ rom_data = <<>>
    /\ directory_entries = <<>>
    /\ stack = <<>>
    /\ out = <<>>
    /\ fnt_pc = "idle"

(***************************************************************************)
(* SpecMii: _mii_uncompress_backward called on a blob.                     *)
(***************************************************************************)
ByteVals == {0, 32}
BsVals == {0, 8}

SeqsUpTo(S, n) == UNION {[1..k -> S] : k \in 0..n}

\* packed word (end_threshold in the low 3 bytes, back_shift on top), extra_size
Footer(thr, bs, extra) == <<thr, 0, 0, bs, extra, 0, 0, 0>>

Blobs ==
    {body \o Footer(thr, bs, extra) :
        body \in SeqsUpTo(ByteVals, MaxBody), thr \in 0..MaxThr,
        bs \in BsVals, extra \in 0..MaxExtra}

\* blobs too short to hold the footer
ShortBlobs ==
    {b \in SeqsUpTo({0, 1}, 7) : Len(b) >= 4 => U32At(b, Len(b) - 4) <= MaxExtra}

InitMii ==
    /\ \E blob \in Blobs \cup ShortBlobs : MiiFresh(blob, "l131")
    /\ Arm9Idle /\ FatIdle /\ CrcIdle /\ ProbeIdle /\ FntIdle

NextMii ==
    \/ MiiUnpackExtra /\ UNCHANGED <<arm9Vars, fatVars, crcVars, probeVars, fntVars>>
    \/ MiiAlloc /\ UNCHANGED <<arm9Vars, fatVars, crcVars, probeVars, fntVars>>
    \/ MiiUnpackPacked /\ UNCHANGED <<arm9Vars, fatVars, crcVars, probeVars, fntVars>>
    \/ MiiReadHeader /\ UNCHANGED <<arm9Vars, fatVars, crcVars, probeVars, fntVars>>
    \/ MiiLiteral /\ UNCHANGED <<arm9Vars, fatVars, crcVars, probeVars, fntVars>>
    \/ MiiBackRef /\ UNCHANGED <<arm9Vars, fatVars, crcVars, probeVars, fntVars>>
    \/ MiiCheck /\ UNCHANGED <<arm9Vars, fatVars, crcVars, probeVars, fntVars>>

SpecMii == InitMii /\ [][NextMii]_vars

\* The interpreter runs the function without pause: a step that can be
\* taken is taken.
SpecMiiFair == SpecMii /\ WF_vars(NextMii)

(***************************************************************************)
(* The footer fields of a blob, as lines 131, 135 and 161 decode them.     *)
(***************************************************************************)
ExtraSize(b) == U32At(b, Len(b) - 4)
BackShift(b) == U32At(b, Len(b) - 8) \div 16777216
EndThreshold(b) == U32At(b, Len(b) - 8) % 16777216

(***************************************************************************)
(* Claims about _mii_uncompress_backward (SpecMii).                        *)
(***************************************************************************)

\* C3 as stated: for every blob of length >= 8 whose extra_size is 0 the
\* decompressor returns, and what it returns equals the input, whatever
\* back_shift and end_threshold are.
C3_ExtraZeroReturnsInput ==
    (pc \in {"return", "raise"} /\ Len(data) >= 8 /\ ExtraSize(data) = 0)
        => (pc = "return" /\ ret = data)

\* C3 amended: for every blob of length >= 8 whose extra_size is 0, whose
\* back_shift is 0 and whose end_threshold is at most 7, the decompressor
\* returns, and what it returns equals the input.
C3_ExtraZeroIdentity ==
    (pc \in {"return", "raise"} /\ Len(data) >= 8 /\ ExtraSize(data) = 0
        /\ BackShift(data) = 0 /\ EndThreshold(data) <= 7)
        => (pc = "return" /\ ret = data)

\* C3 witness: such a blob with a non-zero byte in front of the footer has
\* been decompressed through six literal tokens.
C3_Witness ==
    /\ pc = "return"
    /\ Len(data) > 8
    /\ ExtraSize(data) = 0 /\ BackShift(data) = 0 /\ EndThreshold(data) = 7
    /\ \E k \in 1..Len(data) : data[k] = 32
    /\ ntok = 6

\* C4: a blob of length 0..7 makes the decompressor fail before it reads a
\* footer word: it never gets past line 131 other than by raising.
C4_TruncatedFooter ==
    (pc # "idle" /\ Len(data) < 8) => pc \in {"l131", "raise"}

\* C5: every index the loop uses on the output buffer lies in
\* 0..len(output)-1 (an access outside fails, it does not wrap around).
C5_IndicesInBounds ==
    pc \in {"token", "check", "return"}
        => \A k \in 1..Len(idx) : 0 <= idx[k] /\ idx[k] < Len(result)

\* C11: one back-reference token (control bit 1) reads a at offs-1 and b at
\* offs-2, lowers offs by exactly 2 and dst_offs by exactly (a>>4)+3, a number
\* between 3 and 18, and step k of the run writes output[dst_offs-k] := the
\* current value of output[dst_offs-k+disp], disp = (((a & 0x0F)<<8)|b)+2:
\* for k <= disp that is the byte the buffer held before the token, for
\* k > disp it is the byte step k-disp of the same run wrote.  Nothing else
\* in the buffer changes.
C11_BackRefToken ==
    [][ (pc = "token" /\ header >= 128 /\ pc' = "check") =>
          LET n == Len(result)
              P(k) == PyIndex(k, n)
              a == At(result, P(offs - 1))
              b == At(result, P(offs - 2))
              disp == (((a % 16) * 256) + b) + 2
              run == (a \div 16) + 3
          IN  /\ offs' = offs - 2
              /\ dst_offs' = dst_offs - run
              /\ run \in 3..18
              /\ Len(result') = n
              /\ \A k \in 1..run :
                    /\ P(dst_offs - k) # -1
                    /\ P(dst_offs - k + disp) # -1
                    /\ result'[P(dst_offs - k) + 1] =
                          IF k > disp
                          THEN result'[P(dst_offs - (k - disp)) + 1]
                          ELSE result[P(dst_offs - k + disp) + 1]
              /\ \A p \in 1..n :
                    (\A k \in 1..run : P(dst_offs - k) + 1 # p)
                        => result'[p] = result[p]
      ]_vars

\* C11 witness: a back-reference token has completed on a blob of length
\* >= 8 without any index wrapping, its displacement was smaller than its
\* run, and the last byte of the run, written over a different byte of the
\* input, is a non-zero byte that the same run wrote earlier.
C11_Witness ==
    /\ pc = "check"
    /\ Len(data) >= 8
    /\ Len(idx) >= 8
    /\ idx[3] - idx[4] < (Len(idx) - 2) \div 2
    /\ \A k \in 1..Len(idx) : 0 <= idx[k] /\ idx[k] < Len(result)
    /\ result[idx[Len(idx)] + 1] = 32
    /\ result[idx[Len(idx) - 1] + 1] = 32
    /\ idx[Len(idx)] < Len(data)
    /\ data[idx[Len(idx)] + 1] # 32

\* C12: the test offs <= L - end_threshold is made after every token and
\* never before one.  A control byte read is followed by a token without a
\* test; a token that does not raise is followed by the test; when the test
\* holds the function returns the buffer at once, whatever bits of the
\* control byte are left; a further token is only ever started from a test
\* that failed or from a control byte read; nothing follows the return.
C12_StopTestAfterEachToken ==
    [][ LET stop == Len(data) - EndThreshold(data)
        IN  /\ pc = "l135" => pc' \in {"header", "raise"}
            /\ pc = "header" => pc' \in {"token", "raise"}
            /\ pc = "token" =>
                  \/ pc' = "raise"
                  \/ pc' = "check" /\ ntok' = ntok + 1
            /\ (pc = "check" /\ offs <= stop) =>
                  /\ pc' = "return"
                  /\ ret' = result
                  /\ ntok' = ntok
            /\ (pc = "check" /\ offs > stop) =>
                  /\ pc' \in {"token", "header"}
                  /\ pc' = "header" <=> i = 7
                  /\ UNCHANGED <<result, offs, dst_offs, ntok>>
            /\ pc' = "token" =>
                  \/ pc = "header"
                  \/ pc = "check" /\ offs > stop
            /\ ntok' # ntok => pc = "token"
            /\ pc \in {"return", "raise"} => FALSE
      ]_vars

\* C12 witness: a blob of length >= 8 has been decompressed through at
\* least two tokens and the function returned in the middle of a control
\* byte whose remaining bits are not all zero.
C12_Witness ==
    /\ pc = "return"
    /\ Len(data) >= 8
    /\ ntok >= 2
    /\ i < 7
    /\ (header * 2) % 256 # 0
    /\ offs <= Len(data) - EndThreshold(data)

\* C13: on every blob of length >= 8 the decompressor terminates: offs
\* strictly decreases with every control byte read and every token
\* processed, the stop offset L - end_threshold never changes, and every
\* call ends by returning a buffer or by raising an error.
C13_Terminates ==
    /\ [][ Len(data) >= 8 =>
             /\ (pc \in {"header", "token"} /\ pc' # "raise") => offs' < offs
             /\ pc = "check" => offs' = offs
             /\ pc \in {"header", "token", "check"} =>
                   Len(data') - EndThreshold(data') = Len(data) - EndThreshold(data)
         ]_vars
    /\ (pc = "l131" /\ Len(data) >= 8) ~> (pc \in {"return", "raise"})

\* C13 witness: a call on a blob of length >= 8 has returned after reading
\* two control bytes and processing more than eight tokens.
C13_Witness ==
    /\ pc = "return"
    /\ Len(data) >= 8
    /\ ntok >= 9
    /\ offs <= Len(data) - BackShift(data) - 11

\* C14: whenever the decompressor returns on a blob of length L, what it
\* returns has length exactly L + extra_size (the little-endian word at
\* offset L-4); the buffer keeps that length from its allocation through
\* every step of the loop; and the input blob is never modified.
C14_OutputLength ==
    /\ [](pc = "return" => Len(ret) = Len(data) + ExtraSize(data))
    /\ [][ /\ pc = "l132" => Len(result') = Len(data) + ExtraSize(data)
           /\ pc \in {"l135", "header", "token", "check"} =>
                 Len(result') = Len(result)
           /\ pc # "idle" => data' = data
         ]_vars

\* C14 witness: a blob of length >= 8 with extra_size > 0 has been
\* decompressed and a non-zero byte stands in the part of the output that
\* lies beyond the input's length.
C14_Witness ==
    /\ pc = "return"
    /\ Len(data) >= 8
    /\ ExtraSize(data) > 0
    /\ Len(ret) > Len(data)
    /\ \E k \in (Len(data) + 1)..Len(ret) : ret[k] = 32

(***************************************************************************)
(* SpecArm9: NDSView.init -> _init_arm9 -> _decompress_arm9                *)
(*           -> _mii_uncompress_backward, then _init_arm7.                 *)
(***************************************************************************)
\* len(arm9_data) - 36, line 196
ModuleParamsOffset(b) == Len(b) - 36

\* offset of the compression field: module_params_offset + 0x14
CompressedFieldOffset(b) == ModuleParamsOffset(b) + 20

\* the type of what _mii_uncompress_backward returns (line 163: bytes(result))
MiiReturnType == "bytes"

\* struct.pack_into needs a read-write buffer
PackIntoOk(type, b, off) == type = "bytearray" /\ UnpackOk(b, off)

\* struct.pack_into("<I", b, off, 0)
PackZeroInto(b, off) ==
    LET p == UnpackPos(b, off)
    IN  [k \in 1..Len(b) |-> IF k - 1 >= p /\ k - 1 < p + 4 THEN 0 ELSE b[k]]

\* lines 168-171: arm9_data = rom_data[arm9_rom_offset : arm9_rom_offset + arm9_size]
Arm9Slice ==
    /\ pc9 = "init_arm9"
    /\ arm9_data' = Slice(nds_rom.rom_data, nds_rom.header.arm9_rom_offset,
                          nds_rom.header.arm9_rom_offset + nds_rom.header.arm9_size)
    /\ pc9' = "l198"                      \* try_decompress is True: call _decompress_arm9
    /\ UNCHANGED <<nds_rom, d9, segments, written, init_ret>>
    /\ UNCHANGED miiVars

\* lines 196-202: read the compression field; return, call the decompressor, or raise
Arm9ReadField ==
    /\ pc9 = "l198"
    /\ IF ~UnpackOk(arm9_data, CompressedFieldOffset(arm9_data))
       THEN /\ d9' = "raise"
            /\ pc9' = "except"
            /\ UNCHANGED miiVars
       ELSE IF U32At(arm9_data, CompressedFieldOffset(arm9_data)) = 0
       THEN /\ d9' = "not_compressed"     \* return arm9_data
            /\ pc9' = "map9"
            /\ UNCHANGED miiVars
       ELSE /\ d9' = "none"
            /\ pc9' = "l202"
            /\ data' = arm9_data
            /\ pc' = "l131"
            /\ UNCHANGED <<result, leng, offs, dst_offs, header, i, ret, exc, idx, ntok>>
    /\ UNCHANGED <<nds_rom, arm9_data, segments, written, init_ret>>

\* line 202, the decompressor raised: the exception leaves _decompress_arm9
Arm9MiiRaised ==
    /\ pc9 = "l202"
    /\ pc = "raise"
    /\ d9' = "raise"
    /\ pc9' = "except"
    /\ UNCHANGED <<nds_rom, arm9_data, segments, written, init_ret>>
    /\ UNCHANGED miiVars

\* lines 202-211, the decompressor returned: pack_into on what it returned
Arm9Patch ==
    /\ pc9 = "l202"
    /\ pc = "return"
    /\ IF PackIntoOk(MiiReturnType, ret, CompressedFieldOffset(arm9_data))
       THEN /\ d9' = "decompressed"
            /\ arm9_data' = PackZeroInto(ret, CompressedFieldOffset(arm9_data))
            /\ pc9' = "map9"
       ELSE /\ d9' = "raise"              \* TypeError (or struct.error)
            /\ pc9' = "except"
            /\ UNCHANGED arm9_data
    /\ UNCHANGED <<nds_rom, segments, written, init_ret>>
    /\ UNCHANGED miiVars

\* the same handler without the try/except of lines 174-178: the exception
\* reaches the except of init (lines 39-41)
Arm9ExceptPropagates ==
    /\ pc9 = "except"
    /\ init_ret' = FALSE
    /\ pc9' = "done"
    /\ UNCHANGED <<nds_rom, arm9_data, d9, segments, written>>
    /\ UNCHANGED miiVars

\* lines 176-178: except Exception: log, keep the compressed arm9_data
Arm9Except ==
    /\ pc9 = "except"
    /\ pc9' = "map9"
    /\ UNCHANGED <<nds_rom, arm9_data, d9, segments, written, init_ret>>
    /\ UNCHANGED miiVars

\* lines 180-192: _add_segment_and_entry(..., len(arm9_data), ...); self.write
Arm9Map ==
    /\ pc9 = "map9"
    /\ segments' = Append(segments,
            [rom_offset |-> nds_rom.header.arm9_rom_offset,
             load_address |-> nds_rom.header.arm9_ram_address,
             size |-> Len(arm9_data),
             symbol |-> "_start9"])
    /\ written' = Append(written,
            [address |-> nds_rom.header.arm9_ram_address, bytes |-> arm9_data])
    /\ pc9' = "init_arm7"
    /\ UNCHANGED <<nds_rom, arm9_data, d9, init_ret>>
    /\ UNCHANGED miiVars

\* lines 35, 43-55: _init_arm7
InitArm7 ==
    /\ pc9 = "init_arm7"
    /\ segments' = Append(segments,
            [rom_offset |-> nds_rom.header.arm7_rom_offset,
             load_address |-> nds_rom.header.arm7_ram_address,
             size |-> nds_rom.header.arm7_size,
             symbol |-> "_start7"])
    /\ pc9' = "l38"
    /\ UNCHANGED <<nds_rom, arm9_data, d9, written, init_ret>>
    /\ UNCHANGED miiVars

\* line 38: return True
InitReturn ==
    /\ pc9 = "l38"
    /\ init_ret' = TRUE
    /\ pc9' = "done"
    /\ UNCHANGED <<nds_rom, arm9_data, d9, segments, written>>
    /\ UNCHANGED miiVars

MidVals == {0, 32, 128}

\* ARM9 blobs long enough to hold the ModuleParams record in front of the footer
LongBlobs ==
    {<<f, 0, 0, 0>> \o mid \o Footer(thr, bs, extra) :
        f \in {0, 1}, mid \in [1..4 -> MidVals],
        thr \in 0..MaxThr, bs \in BsVals, extra \in 0..MaxExtra}

\* what NDSRomReader.read hands over: the ROM bytes and the header fields
Rom(blob) ==
    [rom_data |-> <<255>> \o blob \o <<7, 7>>,
     header |-> [arm9_rom_offset |-> 1, arm9_size |-> Len(blob),
                 arm9_ram_address |-> 100, arm9_entry_address |-> 100,
                 arm7_rom_offset |-> 1 + Len(blob), arm7_size |-> 2,
                 arm7_ram_address |-> 200, arm7_entry_address |-> 200]]

InitArm9 ==
    /\ \E blob \in LongBlobs \cup Blobs \cup ShortBlobs : nds_rom = Rom(blob)
    /\ arm9_data = <<>>
    /\ pc9 = "init_arm9"
    /\ d9 = "none"
    /\ segments = <<>>
    /\ written = <<>>
    /\ init_ret = "none"
    /\ MiiIdle /\ FatIdle /\ CrcIdle /\ ProbeIdle /\ FntIdle

NextArm9 ==
    \/ Arm9Slice /\ UNCHANGED <<fatVars, crcVars, probeVars, fntVars>>
    \/ Arm9ReadField /\ UNCHANGED <<fatVars, crcVars, probeVars, fntVars>>
    \/ MiiUnpackExtra /\ UNCHANGED <<arm9Vars, fatVars, crcVars, probeVars, fntVars>>
    \/ MiiAlloc /\ UNCHANGED <<arm9Vars, fatVars, crcVars, probeVars, fntVars>>
    \/ MiiUnpackPacked /\ UNCHANGED <<arm9Vars, fatVars, crcVars, probeVars, fntVars>>
    \/ MiiReadHeader /\ UNCHANGED <<arm9Vars, fatVars, crcVars, probeVars, fntVars>>
    \/ MiiLiteral /\ UNCHANGED <<arm9Vars, fatVars, crcVars, probeVars, fntVars>>
    \/ MiiBackRef /\ UNCHANGED <<arm9Vars, fatVars, crcVars, probeVars, fntVars>>
    \/ MiiCheck /\ UNCHANGED <<arm9Vars, fatVars, crcVars, probeVars, fntVars>>
    \/ Arm9MiiRaised /\ UNCHANGED <<fatVars, crcVars, probeVars, fntVars>>
    \/ Arm9Patch /\ UNCHANGED <<fatVars, crcVars, probeVars, fntVars>>
    \/ Arm9Except /\ UNCHANGED <<fatVars, crcVars, probeVars, fntVars>>
    \/ Arm9Map /\ UNCHANGED <<fatVars, crcVars, probeVars, fntVars>>
    \/ InitArm7 /\ UNCHANGED <<fatVars, crcVars, probeVars, fntVars>>
    \/ InitReturn /\ UNCHANGED <<fatVars, crcVars, probeVars, fntVars>>

SpecArm9 == InitArm9 /\ [][NextArm9]_vars

\* the blob _init_arm9 slices out of the ROM
OriginalArm9 ==
    Slice(nds_rom.rom_data, nds_rom.header.arm9_rom_offset,
          nds_rom.header.arm9_rom_offset + nds_rom.header.arm9_size)

\* C2: when the compression field of the blob is non-zero and the backward
\* decompressor has returned its output, _decompress_arm9 returns that output
\* with the 4-byte field at len(output)-36+0x14 set to zero and every other
\* byte as the decompressor produced it.
C2_FieldZeroedInOutput ==
    (d9 # "none" /\ pc = "return")
        => /\ d9 = "decompressed"
           /\ arm9_data = PackZeroInto(ret, CompressedFieldOffset(ret))

\* C6: when _decompress_arm9 fails, init still finishes with True, having
\* mapped and written the original ARM9 bytes with their original length and
\* then the ARM7 region.
C6_FallbackToCompressed ==
    (pc9 = "done" /\ d9 = "raise")
        => /\ init_ret = TRUE
           /\ Len(segments) = 2
           /\ segments[1].symbol = "_start9"
           /\ segments[1].size = Len(OriginalArm9)
           /\ segments[1].rom_offset = nds_rom.header.arm9_rom_offset
           /\ written = <<[address |-> nds_rom.header.arm9_ram_address,
                           bytes |-> OriginalArm9]>>
           /\ segments[2].symbol = "_start7"
           /\ segments[2].size = nds_rom.header.arm7_size

\* C6 witness: init has finished after the decompressor itself raised in its
\* loop, on a blob that holds the ModuleParams record.
C6_Witness ==
    /\ pc9 = "done"
    /\ d9 = "raise"
    /\ pc = "raise"
    /\ exc = "IndexError"
    /\ Len(OriginalArm9) >= 16

(***************************************************************************)
(* SpecFat: parse_fat (src/ndstest.py).                                    *)
(***************************************************************************)
\* int.from_bytes(b, "little")
RECURSIVE FromBytesLE(_)
FromBytesLE(b) ==
    IF Len(b) = 0 THEN 0 ELSE b[1] + 256 * FromBytesLE(Tail(b))

\* lines 173-178: the two fields of the record at fat_offset + k
FatStart(rom, fat_offset, k) ==
    FromBytesLE(Slice(rom, fat_offset + k, fat_offset + k + 4))
FatEnd(rom, fat_offset, k) ==
    FromBytesLE(Slice(rom, fat_offset + k + 4, fat_offset + k + 8))

\* lines 172-180: one pass of "for i in range(0, fat_size, 8)"
FatLoop ==
    /\ fat_pc = "loop"
    /\ fat_i < fat.fat_size
    /\ LET start_address == FatStart(fat.rom_data, fat.fat_offset, fat_i)
           end_address == FatEnd(fat.rom_data, fat.fat_offset, fat_i)
       IN  fat_entries' =
               IF start_address # 0 \/ end_address # 0
               THEN Append(fat_entries,
                        [start_address |-> start_address, end_address |-> end_address])
               ELSE fat_entries
    /\ fat_i' = fat_i + 8
    /\ UNCHANGED <<fat, fat_pc>>

\* line 181: return fat_entries
FatReturn ==
    /\ fat_pc = "loop"
    /\ fat_i >= fat.fat_size
    /\ fat_pc' = "return"
    /\ UNCHANGED <<fat, fat_i, fat_entries>>

\* the four bytes of a little-endian word below 2^16
LE4(n) == <<n % 256, n \div 256, 0, 0>>

FatRecords == {LE4(s) \o LE4(e) : s \in {0, 1, 256}, e \in {0, 2}}

RECURSIVE Flatten(_)
Flatten(ss) == IF Len(ss) = 0 THEN <<>> ELSE ss[1] \o Flatten(Tail(ss))

InitFat ==
    /\ \E recs \in SeqsUpTo(FatRecords, MaxFat) :
           fat = [rom_data |-> <<255>> \o Flatten(recs) \o <<255>>,
                  fat_offset |-> 1, fat_size |-> 8 * Len(recs)]
    /\ fat_i = 0
    /\ fat_entries = <<>>
    /\ fat_pc = "loop"
    /\ MiiIdle /\ Arm9Idle /\ CrcIdle /\ ProbeIdle /\ FntIdle

NextFat ==
    \/ FatLoop /\ UNCHANGED <<miiVars, arm9Vars, crcVars, probeVars, fntVars>>
    \/ FatReturn /\ UNCHANGED <<miiVars, arm9Vars, crcVars, probeVars, fntVars>>

SpecFat == InitFat /\ [][NextFat]_vars

\* C1: on a FAT region of 8*n bytes parse_fat returns exactly n entries, the
\* entry at list index k being the (start, end) pair of the k-th record.
C1_OneEntryPerRecord ==
    fat_pc = "return"
        => /\ Len(fat_entries) * 8 = fat.fat_size
           /\ \A k \in 1..Len(fat_entries) :
                  /\ fat_entries[k].start_address
                        = FatStart(fat.rom_data, fat.fat_offset, 8 * (k - 1))
                  /\ fat_entries[k].end_address
                        = FatEnd(fat.rom_data, fat.fat_offset, 8 * (k - 1))

(***************************************************************************)
(* SpecCrc: crc16 (src/ndsrom.py).                                         *)
(***************************************************************************)
CrcSeed == 65535      \* 0xFFFF
CrcPoly == 40961      \* 0xA001

\* a ^ b on naturals
RECURSIVE BitXor(_, _)
BitXor(a, b) ==
    IF a = 0 THEN b
    ELSE IF b = 0 THEN a
    ELSE (((a % 2) + (b % 2)) % 2) + 2 * BitXor(a \div 2, b \div 2)

\* the body of the bit loop with the xor applied before the shift
CrcBitXorFirst(c) ==
    IF c % 2 = 1 THEN BitXor(c, CrcPoly) \div 2 ELSE c \div 2

\* lines 16-19: one pass of "for bit in range(0, 8)"
CrcBit(c) ==
    IF c % 2 = 1 THEN BitXor(c \div 2, CrcPoly) ELSE c \div 2

\* line 12: crc = 0xFFFF
CrcInit ==
    /\ crc_pc = "l12"
    /\ crc' = CrcSeed
    /\ crc_k' = 0
    /\ crc_pc' = "l13"
    /\ UNCHANGED <<crc_in, crc_bit>>

\* lines 13-14: the next ch of data; crc ^= ch
CrcXorByte ==
    /\ crc_pc = "l13"
    /\ crc_k < Len(crc_in)
    /\ crc' = BitXor(crc, crc_in[crc_k + 1])
    /\ crc_k' = crc_k + 1
    /\ crc_bit' = 0
    /\ crc_pc' = "l15"
    /\ UNCHANGED crc_in

\* lines 15-19
CrcBitStep ==
    /\ crc_pc = "l15"
    /\ crc' = CrcBit(crc)
    /\ crc_bit' = crc_bit + 1
    /\ crc_pc' = IF crc_bit + 1 = 8 THEN "l13" ELSE "l15"
    /\ UNCHANGED <<crc_in, crc_k>>

\* line 20: return crc
CrcReturn ==
    /\ crc_pc = "l13"
    /\ crc_k >= Len(crc_in)
    /\ crc_pc' = "return"
    /\ UNCHANGED <<crc_in, crc, crc_k, crc_bit>>

\* "123456789"
CheckString == <<49, 50, 51, 52, 53, 54, 55, 56, 57>>

CrcVals == {0, 1, 128, 255}

InitCrc ==
    /\ crc_in \in SeqsUpTo(CrcVals, MaxCrcLen) \cup {CheckString}
    /\ crc = 0
    /\ crc_k = 0
    /\ crc_bit = 0
    /\ crc_pc = "l12"
    /\ MiiIdle /\ Arm9Idle /\ FatIdle /\ ProbeIdle /\ FntIdle

NextCrc ==
    \/ CrcInit /\ UNCHANGED <<miiVars, arm9Vars, fatVars, probeVars, fntVars>>
    \/ CrcXorByte /\ UNCHANGED <<miiVars, arm9Vars, fatVars, probeVars, fntVars>>
    \/ CrcBitStep /\ UNCHANGED <<miiVars, arm9Vars, fatVars, probeVars, fntVars>>
    \/ CrcReturn /\ UNCHANGED <<miiVars, arm9Vars, fatVars, probeVars, fntVars>>

SpecCrc == InitCrc /\ [][NextCrc]_vars

\* The reference fold of the claim, on the set of bits of a 16-bit word.
RefBits(n) == {k \in 0..15 : (n \div (2 ^ k)) % 2 = 1}

RECURSIVE RefValue(_)
RefValue(S) ==
    IF S = {} THEN 0
    ELSE LET k == CHOOSE x \in S : TRUE IN 2 ^ k + RefValue(S \ {k})

RefXor(a, b) ==
    RefValue((RefBits(a) \ RefBits(b)) \cup (RefBits(b) \ RefBits(a)))

\* shift right by one, xor with 0xA001 exactly when the bit shifted out was 1
RefShift(c) ==
    LET shifted == c \div 2
    IN  IF 0 \in RefBits(c) THEN RefXor(shifted, 40961) ELSE shifted

RECURSIVE RefShifts(_, _)
RefShifts(c, n) == IF n = 0 THEN c ELSE RefShifts(RefShift(c), n - 1)

\* xor the byte into the low byte of the accumulator, then 8 shifts
RefByte(c, ch) == RefShifts((c \div 256) * 256 + RefXor(c % 256, ch), 8)

\* (the accumulator of the prefix is computed before the next byte is folded in)
RECURSIVE RefFold(_, _)
RefFold(b, n) ==
    IF n = 0 THEN 65535
    ELSE LET acc == RefFold(b, n - 1)
         IN  IF acc = 0 THEN RefByte(0, b[n]) ELSE RefByte(acc, b[n])

\* C9: crc16 equals the reference fold on every byte sequence; its result
\* lies in 0..0xFFFF, is 0xFFFF on the empty sequence (and 0x4B37, the
\* CRC-16/MODBUS check value, on "123456789").
C9_Crc16IsReferenceFold ==
    crc_pc = "return"
        => /\ crc = RefFold(crc_in, Len(crc_in))
           /\ crc \in 0..65535
           /\ (crc_in = <<>> => crc = 65535)
           /\ (crc_in = CheckString => crc = 19255)

\* C9 witness: crc16 has returned on a non-empty input after a pass of the
\* bit loop that applied the polynomial.
C9_Witness ==
    /\ crc_pc = "return"
    /\ Len(crc_in) = 3
    /\ crc_in[1] = 255 /\ crc_in[3] = 128
    /\ crc # 65535

(***************************************************************************)
(* SpecProbe: NDSView.is_valid_for_data (src/ndsrom.py), calling crc16.    *)
(***************************************************************************)
HeaderSize == 352         \* 0x160
HeaderCrcOffset == 350    \* 0x15E
LogoCrcOffset == 348      \* 0x15C
LogoOffset == 192         \* 0xC0

\* struct.unpack("<H", b[off:off+2])[0]
U16At(b, off) == At(b, off) + 256 * At(b, off + 1)

\* lines 13-19 for one ch
CrcByte(c, ch) == CrcBit(CrcBit(CrcBit(CrcBit(CrcBit(CrcBit(CrcBit(CrcBit(BitXor(c, ch)))))))))

\* lines 13-19 over the bytes b[lo:hi], the range folded half by half
RECURSIVE CrcRange(_, _, _, _)
CrcRange(c, b, lo, hi) ==
    IF hi <= lo THEN c
    ELSE IF hi = lo + 1 THEN CrcByte(c, At(b, lo))
    ELSE LET mid == (lo + hi) \div 2
             left == CrcRange(c, b, lo, mid)
         IN  IF left = 0 THEN CrcRange(0, b, mid, hi) ELSE CrcRange(left, b, mid, hi)

\* crc16(data) as a value
Crc16(b) == CrcRange(CrcSeed, b, 0, Len(b))

\* the call crc16(b): a fresh activation
CrcCall(b) ==
    /\ crc_in' = b
    /\ crc' = 0
    /\ crc_k' = 0
    /\ crc_bit' = 0
    /\ crc_pc' = "l12"

\* lines 33-36: read the header; too short -> False; else call crc16(hdr[0:0x15E])
ProbeRead ==
    /\ probe_pc = "l33"
    /\ hdr' = Slice(raw, 0, HeaderSize)
    /\ IF Len(Slice(raw, 0, HeaderSize)) < HeaderSize
       THEN /\ probe_ret' = FALSE
            /\ probe_pc' = "return"
            /\ UNCHANGED crcVars
       ELSE /\ probe_pc' = "l36"
            /\ CrcCall(Slice(Slice(raw, 0, HeaderSize), 0, HeaderCrcOffset))
            /\ UNCHANGED probe_ret
    /\ UNCHANGED raw

\* lines 36-39: compare the header checksum; then call crc16(hdr[0xC0:0x15C])
ProbeHeaderCrc ==
    /\ probe_pc = "l36"
    /\ crc_pc = "return"
    /\ IF U16At(hdr, HeaderCrcOffset) # crc
       THEN /\ probe_ret' = FALSE
            /\ probe_pc' = "return"
            /\ UNCHANGED crcVars
       ELSE /\ probe_pc' = "l39"
            /\ CrcCall(Slice(hdr, LogoOffset, LogoCrcOffset))
            /\ UNCHANGED probe_ret
    /\ UNCHANGED <<raw, hdr>>

\* lines 39-42 without the comparison of the logo checksum
ProbeLogoCrcSkipped ==
    /\ probe_pc = "l39"
    /\ crc_pc = "return"
    /\ probe_ret' = TRUE
    /\ probe_pc' = "return"
    /\ UNCHANGED <<raw, hdr>>
    /\ UNCHANGED crcVars

\* lines 39-42: compare the logo checksum; return
ProbeLogoCrc ==
    /\ probe_pc = "l39"
    /\ crc_pc = "return"
    /\ probe_ret' = (U16At(hdr, LogoCrcOffset) = crc)
    /\ probe_pc' = "return"
    /\ UNCHANGED <<raw, hdr>>
    /\ UNCHANGED crcVars

\* a header that is zero but for byte 0, byte 0xC0 and the two stored checksums
ProbeHeader(b0, bC0, logo, hcrc) ==
    [k \in 1..HeaderSize |->
        IF k - 1 = 0 THEN b0
        ELSE IF k - 1 = LogoOffset THEN bC0
        ELSE IF k - 1 = LogoCrcOffset THEN logo % 256
        ELSE IF k - 1 = LogoCrcOffset + 1 THEN logo \div 256
        ELSE IF k - 1 = HeaderCrcOffset THEN hcrc % 256
        ELSE IF k - 1 = HeaderCrcOffset + 1 THEN hcrc \div 256
        ELSE 0]

\* <<byte 0, byte 0xC0, stored logo checksum, stored header checksum>>: for
\* each content both checksums right, and one or both off by a bit
ProbeFixtures ==
    { <<0, 0, 57685, 819>>,   <<0, 0, 57685, 563>>,
      <<0, 0, 57684, 37682>>, <<0, 0, 57684, 37426>>,
      <<1, 0, 57685, 42107>>, <<1, 0, 57685, 42363>>,
      <<1, 0, 57684, 13434>>, <<1, 0, 57684, 13690>>,
      <<0, 1, 27989, 819>>,   <<0, 1, 27989, 563>>,
      <<0, 1, 27988, 37682>>, <<0, 1, 27988, 37426>> }

\* files: the header cut short by one byte or more, whole, or followed by data
ProbeFiles ==
    UNION { { Slice(ProbeHeader(f[1], f[2], f[3], f[4]), 0, n) : n \in {0, 351, 352} }
            \cup { ProbeHeader(f[1], f[2], f[3], f[4]) \o <<170>> } : f \in ProbeFixtures }

InitProbe ==
    /\ raw \in ProbeFiles
    /\ hdr = <<>>
    /\ probe_pc = "l33"
    /\ probe_ret = "none"
    /\ MiiIdle /\ Arm9Idle /\ FatIdle /\ CrcIdle /\ FntIdle

NextProbe ==
    \/ ProbeRead /\ UNCHANGED <<miiVars, arm9Vars, fatVars, fntVars>>
    \/ CrcInit /\ UNCHANGED <<miiVars, arm9Vars, fatVars, probeVars, fntVars>>
    \/ CrcXorByte /\ UNCHANGED <<miiVars, arm9Vars, fatVars, probeVars, fntVars>>
    \/ CrcBitStep /\ UNCHANGED <<miiVars, arm9Vars, fatVars, probeVars, fntVars>>
    \/ CrcReturn /\ UNCHANGED <<miiVars, arm9Vars, fatVars, probeVars, fntVars>>
    \/ ProbeHeaderCrc /\ UNCHANGED <<miiVars, arm9Vars, fatVars, fntVars>>
    \/ ProbeLogoCrc /\ UNCHANGED <<miiVars, arm9Vars, fatVars, fntVars>>

SpecProbe == InitProbe /\ [][NextProbe]_vars

\* C7: is_valid_for_data returns True exactly when 0x160 header bytes can be
\* read, the word at 0x15E is crc16 of bytes [0,0x15E) and the word at 0x15C is
\* crc16 of bytes [0xC0,0x15C); otherwise False.
C7_ProbeIffBothChecksums ==
    probe_pc = "return"
        => /\ probe_ret \in BOOLEAN
           /\ probe_ret =
                (/\ Len(raw) >= 352
                 /\ U16At(raw, 350) = Crc16(Slice(raw, 0, 350))
                 /\ U16At(raw, 348) = Crc16(Slice(raw, 192, 348)))

\* C7 witness: the probe has answered True on a file longer than the header.
C7_Witness ==
    /\ probe_pc = "return"
    /\ probe_ret = TRUE
    /\ Len(raw) > 352
    /\ raw[1] = 1

(***************************************************************************)
(* SpecFnt: parse_fnt, parse_fnt_sub_table and print_file_system           *)
(* (src/ndstest.py), with fnt_offset = 0.                                  *)
(***************************************************************************)
RootId == 61440           \* 0xF000

\* lines 189-207: the main table, keyed by 0xF000 + i
ParseFnt(rom, fnt_offset) ==
    LET total_directories == FromBytesLE(Slice(rom, fnt_offset + 6, fnt_offset + 8))
    IN  [id \in {RootId + n : n \in 0..(total_directories - 1)} |->
            LET offset == fnt_offset + (id - RootId) * 8
            IN  [sub_table_offset |-> FromBytesLE(Slice(rom, offset, offset + 4)),
                 first_file_id |-> FromBytesLE(Slice(rom, offset + 4, offset + 6)),
                 parent_directory_id |->
                     IF id = RootId THEN -1
                     ELSE FromBytesLE(Slice(rom, offset + 6, offset + 8))]]

\* bytes.decode("ascii") succeeds
IsAscii(b) == \A k \in 1..Len(b) : b[k] < 128

\* lines 219-235: the while loop of parse_fnt_sub_table from `offset` on
RECURSIVE SubTableFrom(_, _, _)
SubTableFrom(rom, offset, entries) ==
    IF offset >= Len(rom)
    THEN [ok |-> FALSE, error |-> "IndexError", entries |-> entries]
    ELSE LET type_length == At(rom, offset)
             is_directory == type_length >= 128          \* type_length & 0x80 != 0
             name_length == type_length % 128            \* type_length & 0x7F
             name == Slice(rom, offset + 1, offset + 1 + name_length)
             after == offset + 1 + name_length
         IN  IF type_length = 0
             THEN [ok |-> TRUE, error |-> "none", entries |-> entries]
             ELSE IF ~IsAscii(name)
             THEN [ok |-> FALSE, error |-> "UnicodeDecodeError", entries |-> entries]
             ELSE IF is_directory
             THEN SubTableFrom(rom, after + 2,
                      Append(entries,
                          [name |-> name, is_directory |-> TRUE,
                           directory_id |-> FromBytesLE(Slice(rom, after, after + 2))]))
             ELSE SubTableFrom(rom, after,
                      Append(entries,
                          [name |-> name, is_directory |-> FALSE, directory_id |-> -1]))

\* lines 213-237
ParseFntSubTable(rom, fnt_offset, sub_table_offset) ==
    SubTableFrom(rom, fnt_offset + sub_table_offset, <<>>)

Top == stack[Len(stack)]
Pop(st) == SubSeq(st, 1, Len(st) - 1)
CallFrame(id) == [dir_id |-> id, at |-> "call", sub_table |-> <<>>, k |-> 0]

FntRaise(e) ==
    /\ fnt_pc' = e
    /\ UNCHANGED <<rom_data, directory_entries, stack, out>>

\* lines 372-373 and 290: parse_fnt, then print_directory(0xF000)
FntParse ==
    /\ fnt_pc = "parse_fnt"
    /\ directory_entries' = ParseFnt(rom_data, 0)
    /\ stack' = <<CallFrame(RootId)>>
    /\ fnt_pc' = "print"
    /\ UNCHANGED <<rom_data, out>>

\* lines 276-282: entering print_directory(dir_id)
PrintDirectoryEnter ==
    /\ fnt_pc = "print"
    /\ Top.at = "call"
    /\ IF Len(stack) > MaxDepth
       THEN FntRaise("RecursionError")
       ELSE IF Top.dir_id \notin DOMAIN directory_entries
       THEN FntRaise("KeyError")
       ELSE LET dir_entry == directory_entries[Top.dir_id]
                sub_table == ParseFntSubTable(rom_data, 0, dir_entry.sub_table_offset)
            IN  IF ~sub_table.ok
                THEN /\ fnt_pc' = sub_table.error
                     /\ out' = Append(out, [kind |-> "Directory ID", id |-> Top.dir_id,
                                            name |-> <<>>])
                     /\ UNCHANGED <<rom_data, directory_entries, stack>>
                ELSE /\ out' = Append(out, [kind |-> "Directory ID", id |-> Top.dir_id,
                                            name |-> <<>>])
                     /\ stack' = [stack EXCEPT ![Len(stack)] =
                                    [dir_id |-> Top.dir_id, at |-> "for",
                                     sub_table |-> sub_table.entries, k |-> 1]]
                     /\ UNCHANGED <<rom_data, directory_entries, fnt_pc>>

\* the same loop body, the call for a sub-directory put off until the
\* directories being listed have been printed
PrintEntryDeferred ==
    /\ fnt_pc = "print"
    /\ Top.at = "for"
    /\ Top.k <= Len(Top.sub_table)
    /\ LET entry == Top.sub_table[Top.k]
           next == [stack EXCEPT ![Len(stack)].k = Top.k + 1]
       IN  IF entry.is_directory
           THEN /\ out' = Append(out, [kind |-> "directory", id |-> entry.directory_id,
                                       name |-> entry.name])
                /\ stack' = <<CallFrame(entry.directory_id)>> \o next
           ELSE /\ out' = Append(out, [kind |-> "file", id |-> -1, name |-> entry.name])
                /\ stack' = next
    /\ UNCHANGED <<rom_data, directory_entries, fnt_pc>>

\* lines 283-288: one pass of "for entry in sub_table"
PrintEntry ==
    /\ fnt_pc = "print"
    /\ Top.at = "for"
    /\ Top.k <= Len(Top.sub_table)
    /\ LET entry == Top.sub_table[Top.k]
           next == [stack EXCEPT ![Len(stack)].k = Top.k + 1]
       IN  IF entry.is_directory
           THEN /\ out' = Append(out, [kind |-> "directory", id |-> entry.directory_id,
                                       name |-> entry.name])
                /\ stack' = Append(next, CallFrame(entry.directory_id))
           ELSE /\ out' = Append(out, [kind |-> "file", id |-> -1, name |-> entry.name])
                /\ stack' = next
    /\ UNCHANGED <<rom_data, directory_entries, fnt_pc>>

\* the for loop is exhausted: print_directory returns
PrintDirectoryReturn ==
    /\ fnt_pc = "print"
    /\ Top.at = "for"
    /\ Top.k > Len(Top.sub_table)
    /\ stack' = Pop(stack)
    /\ fnt_pc' = IF Len(stack) = 1 THEN "done" ELSE "print"
    /\ UNCHANGED <<rom_data, directory_entries, out>>

(* FNT images are built from the sub-tables they are to hold. *)
NameA == <<65, 46, 66, 73, 78>>      \* "A.BIN"
NameB == <<66, 46, 66, 73, 78>>      \* "B.BIN"
NameSub == <<83, 85, 66>>            \* "SUB"

LE2(n) == <<n % 256, n \div 256>>

EncodeEntry(e) ==
    IF e.is_directory
    THEN <<128 + Len(e.name)>> \o e.name \o LE2(e.directory_id)
    ELSE <<Len(e.name)>> \o e.name

RECURSIVE EncodeSubTable(_)
EncodeSubTable(t) ==
    IF Len(t) = 0 THEN <<0>> ELSE EncodeEntry(t[1]) \o EncodeSubTable(Tail(t))

\* the bytes of the sub-tables in front of sub-table n
RECURSIVE SubTablesBefore(_, _)
SubTablesBefore(tables, n) ==
    IF n <= 1 THEN <<>>
    ELSE SubTablesBefore(tables, n - 1) \o EncodeSubTable(tables[n - 1])

EncodeFnt(tables) ==
    LET main == [n \in 1..Len(tables) |->
                    <<(8 * Len(tables) + Len(SubTablesBefore(tables, n))) % 256,
                      (8 * Len(tables) + Len(SubTablesBefore(tables, n))) \div 256, 0, 0>>
                    \o LE2(0)
                    \o (IF n = 1 THEN LE2(Len(tables)) ELSE LE2(RootId))]
    IN  Flatten(main) \o SubTablesBefore(tables, Len(tables) + 1)

FileEntry(nm) == [name |-> nm, is_directory |-> FALSE, directory_id |-> -1]
DirEntry(nm, id) == [name |-> nm, is_directory |-> TRUE, directory_id |-> id]

FntEntries ==
    {FileEntry(NameA), FileEntry(NameB)}
        \cup {DirEntry(NameSub, id) : id \in {RootId, RootId + 1, RootId + 2}}

FntSubTables == SeqsUpTo(FntEntries, MaxEntries)

\* one, two or three directories; the third one holds the file B.BIN
FntTables ==
    {<<t0>> : t0 \in FntSubTables}
        \cup {<<t0, t1>> : t0 \in FntSubTables, t1 \in FntSubTables}
        \cup {<<t0, t1, <<FileEntry(NameB)>> >> : t0 \in FntSubTables, t1 \in FntSubTables}

InitFnt ==
    /\ \E tables \in FntTables : rom_data = EncodeFnt(tables)
    /\ directory_entries = <<>>
    /\ stack = <<>>
    /\ out = <<>>
    /\ fnt_pc = "parse_fnt"
    /\ MiiIdle /\ Arm9Idle /\ FatIdle /\ CrcIdle /\ ProbeIdle

NextFnt ==
    \/ FntParse /\ UNCHANGED <<miiVars, arm9Vars, fatVars, crcVars, probeVars>>
    \/ PrintDirectoryEnter /\ UNCHANGED <<miiVars, arm9Vars, fatVars, crcVars, probeVars>>
    \/ PrintEntry /\ UNCHANGED <<miiVars, arm9Vars, fatVars, crcVars, probeVars>>
    \/ PrintDirectoryReturn /\ UNCHANGED <<miiVars, arm9Vars, fatVars, crcVars, probeVars>>

SpecFnt == InitFnt /\ [][NextFnt]_vars

\* the names print_file_system has printed, in order (the "Directory ID"
\* lines left out)
NamesPrinted ==
    LET named == SelectSeq(out, LAMBDA e : e.kind # "Directory ID")
    IN  [k \in 1..Len(named) |-> named[k].name]

\* Depth-first pre-order of the tree the FNT describes: the children of a
\* directory in sub-table order, the subtree of a sub-directory right after
\* its name.
RECURSIVE PreOrder(_, _)
RECURSIVE PreOrderOfEntries(_, _)
PreOrder(id, fuel) ==
    IF fuel = 0 \/ id \notin DOMAIN directory_entries THEN <<>>
    ELSE PreOrderOfEntries(
             ParseFntSubTable(rom_data, 0, directory_entries[id].sub_table_offset).entries,
             fuel)
PreOrderOfEntries(entries, fuel) ==
    IF Len(entries) = 0 THEN <<>>
    ELSE <<entries[1].name>>
            \o (IF entries[1].is_directory
                THEN PreOrder(entries[1].directory_id, fuel - 1)
                ELSE <<>>)
            \o PreOrderOfEntries(Tail(entries), fuel)

\* root: file A.BIN and directory SUB; SUB: file B.BIN
ExampleFnt ==
    EncodeFnt(<< <<FileEntry(NameA), DirEntry(NameSub, RootId + 1)>>,
                 <<FileEntry(NameB)>> >>)

\* C8: a directory that is being listed is never entered again: on a table
\* whose sub-table names an ancestor (or the directory itself) the traversal
\* stops instead of recursing.
C8_NoDirectoryEnteredTwice ==
    \A m, n \in 1..Len(stack) :
        (m < n /\ stack[m].at = "for" /\ stack[n].at = "for")
            => stack[m].dir_id # stack[n].dir_id

\* C10: a traversal that runs to its end has printed the names in
\* depth-first pre-order, following sub-table order; on the example (root
\* with A.BIN and SUB, SUB with B.BIN) exactly A.BIN, SUB, B.BIN.
C10_DepthFirstPreOrder ==
    fnt_pc = "done"
        => /\ NamesPrinted = PreOrder(RootId, MaxDepth + 1)
           /\ (rom_data = ExampleFnt => NamesPrinted = <<NameA, NameSub, NameB>>)

\* C10 witness: the traversal of a table in which a sub-directory with a
\* file of its own is followed by a sibling has run to its end.
C10_Witness ==
    /\ fnt_pc = "done"
    /\ rom_data = EncodeFnt(<< <<DirEntry(NameSub, RootId + 1), FileEntry(NameA)>>,
                               <<FileEntry(NameB), DirEntry(NameSub, RootId + 2)>>,
                               <<FileEntry(NameB)>> >>)
    /\ NamesPrinted = <<NameSub, NameB, NameSub, NameB, NameA>>

====
